---- MODULE Spec2Model ----
(***************************************************************************)
(* Out-of-order sequence reconstruction in nsdi24p293/fabric:              *)
(*   - ProposalOrderer (package endorser): concurrent Push callers, one    *)
(*     background worker (SendProposalsInOrder) and a consumer (Pop);      *)
(*   - Scheduler (package blockcutter): the synchronous batch cutter       *)
(*     (Schedule / Cut).                                                   *)
(* The two engines share no state.  Each has its own specification; the    *)
(* specifications that cover both run the ProposalOrderer first and the    *)
(* Scheduler once the ProposalOrderer's goroutines are idle.               *)
(***************************************************************************)
EXTENDS Integers, Sequences, FiniteSets, TLC

(***************************************************************************)
(* Bounds of the model.                                                    *)
(***************************************************************************)
\* Sequence numbers used by the callers are 0 .. NumSeq-1.
NumSeq == 3
\* Number of goroutines that call ProposalOrderer.Push concurrently.
NumProducers == 2
\* Capacity of processCh.  The code allocates 1e5 slots; the model scales the
\* capacity down so that a full hand-off queue is reachable.
ProcessChCap == 1
\* Capacity of trySendCh, scaled down from 1e5 in the same way.
TrySendChCap == 2
\* How many calls in all may repeat a sequence number already used, in the
\* specifications that allow duplicates.
MaxRepeats == 1

Seqs == 0 .. (NumSeq - 1)
Producers == 1 .. NumProducers

VARIABLES
    po,         \* the ProposalOrderer struct
    pushPc,     \* per producer: position inside Push
    pushItem,   \* per producer: the upw argument of the Push in progress
    workerPc,   \* position of the SendProposalsInOrder goroutine
    upw,        \* the worker's local upw (popped, not yet sent)
    pushCount,  \* per sequence: how many Push calls were made with it
    popped      \* the items the consumer's Pop calls returned, in order

poVars == <<po, pushPc, pushItem, workerPc, upw, pushCount, popped>>

VARIABLES
    s,          \* the Scheduler struct
    now,        \* the wall clock read by time.Now() / time.Since()
    panicked,   \* logger.Panicf was reached: the goroutine is unwinding
    schedCount, \* per sequence: how many Schedule calls were made with it
    scheduled,  \* every envelope ever passed to Schedule
    emitted,    \* all batches returned by Schedule (and Cut) calls, in order
    ret,        \* arguments, return values and loop iterations of the last
                \* Schedule / Cut call
    config,     \* the BatchSize of a caller that passes the same limits every time
    releasedAt  \* per sequence: the time of the Schedule call whose loop counted
                \* it into the forming batch (0: not yet)

schedVars ==
    <<s, now, panicked, schedCount, scheduled, emitted, ret, config, releasedAt>>

VARIABLES
    donePc,     \* per item: position of the goroutine that calls upw.Done()
    waitPc,     \* per item: position of the goroutine that calls upw.Wait()
    waitAgainPc \* per item: position of a goroutine that calls upw.Wait() on
                \* the item as well (a second Wait)

waitVars == <<donePc, waitPc, waitAgainPc>>

vars == <<po, pushPc, pushItem, workerPc, upw, pushCount, popped,
          s, now, panicked, schedCount, scheduled, emitted, ret, config,
          releasedAt, donePc, waitPc, waitAgainPc>>

\* The number of calls, among those counted in count, that repeated a
\* sequence number.
RECURSIVE RepeatsBelow(_, _)
RepeatsBelow(count, n) ==
    IF n = 0 THEN 0
    ELSE RepeatsBelow(count, n - 1)
         + (IF count[n - 1] > 1 THEN count[n - 1] - 1 ELSE 0)

Repeats(count) == RepeatsBelow(count, NumSeq)

\* The caller may use sequence n: it is new, or a repeat is still allowed.
MayUse(count, n, repeats) == count[n] = 0 \/ Repeats(count) < repeats

\* The nil *UnpackedProposalWrapper.
NoItem == [Sequence |-> -1, id |-> -1]

(***************************************************************************)
(* PriorityQueue and container/heap over it.  A queue is a sequence,       *)
(* Go index i is TLA+ index i+1.                                           *)
(***************************************************************************)
\* Mutant: the comparison reversed (a max-heap).
LessReversed(pq, i, j) == pq[i + 1].Sequence > pq[j + 1].Sequence

Less(pq, i, j) == pq[i + 1].Sequence < pq[j + 1].Sequence

Swap(pq, i, j) == [pq EXCEPT ![i + 1] = pq[j + 1], ![j + 1] = pq[i + 1]]

RECURSIVE up(_, _)
up(pq, j) ==
    LET i == (j - 1) \div 2 IN
    IF i = j \/ j = 0 \/ ~Less(pq, j, i) THEN pq
    ELSE up(Swap(pq, i, j), i)

RECURSIVE down(_, _, _)
down(pq, i, n) ==
    LET j1 == 2 * i + 1
        j2 == j1 + 1
        j  == IF j2 < n /\ Less(pq, j2, j1) THEN j2 ELSE j1
    IN  IF j1 >= n THEN pq
        ELSE IF ~Less(pq, j, i) THEN pq
        ELSE down(Swap(pq, i, j), j, n)

\* Mutant: the new element is appended and not moved up.
heapPushAppend(pq, x) == Append(pq, x)

\* heap.Push(h, x): h.Push(x) appends, then up(h, h.Len()-1).
heapPush(pq, x) == up(Append(pq, x), Len(pq))

\* Mutant: the last element is removed without the Swap that moves the head
\* there, so the head stays in the queue and the last element is lost.
heapPopQueueLast(pq) == SubSeq(pq, 1, Len(pq) - 1)

\* heap.Pop(h): Swap(0, n), down(0, n), then h.Pop() removes the last element.
heapPopQueue(pq) ==
    LET n == Len(pq) - 1
        h == down(Swap(pq, 0, n), 0, n)
    IN  SubSeq(h, 1, n)

heapPopItem(pq) == pq[1]

(***************************************************************************)
(* ProposalOrderer                                                         *)
(***************************************************************************)
NewProposalOrderer ==
    [nextSequence |-> 0,
     mutex        |-> FALSE,      \* TRUE: locked
     queue        |-> << >>,
     processCh    |-> << >>,
     trySendCh    |-> 0]          \* number of struct{}{} signals buffered

InitPO ==
    /\ po = NewProposalOrderer
    /\ pushPc = [p \in Producers |-> "idle"]
    /\ pushItem = [p \in Producers |-> NoItem]
    /\ workerPc = "recv"
    /\ upw = NoItem
    /\ pushCount = [n \in Seqs |-> 0]
    /\ popped = << >>
    /\ donePc = [n \in Seqs |-> "idle"]
    /\ waitPc = [n \in Seqs |-> "idle"]
    /\ waitAgainPc = [n \in Seqs |-> "idle"]

\* A caller invokes Push with an item of sequence n; at most `repeats` calls
\* repeat a sequence number.
PushCall(p, n, repeats) ==
    /\ pushPc[p] = "idle"
    /\ MayUse(pushCount, n, repeats)
    /\ pushItem' = [pushItem EXCEPT ![p] = [Sequence |-> n, id |-> pushCount[n]]]
    /\ pushCount' = [pushCount EXCEPT ![n] = @ + 1]
    /\ pushPc' = [pushPc EXCEPT ![p] = "lock"]
    /\ UNCHANGED <<po, workerPc, upw, popped>>
    /\ UNCHANGED <<schedVars, waitVars>>

\* po.mutex.Lock()
PushLock(p) ==
    /\ pushPc[p] = "lock"
    /\ ~po.mutex
    /\ po' = [po EXCEPT !.mutex = TRUE]
    /\ pushPc' = [pushPc EXCEPT ![p] = "insert"]
    /\ UNCHANGED <<pushItem, workerPc, upw, pushCount, popped>>
    /\ UNCHANGED <<schedVars, waitVars>>

\* heap.Push(po.queue, upw)
PushInsert(p) ==
    /\ pushPc[p] = "insert"
    /\ po' = [po EXCEPT !.queue = heapPush(@, pushItem[p])]
    /\ pushPc' = [pushPc EXCEPT ![p] = "unlock"]
    /\ UNCHANGED <<pushItem, workerPc, upw, pushCount, popped>>
    /\ UNCHANGED <<schedVars, waitVars>>

\* po.mutex.Unlock()
PushUnlock(p) ==
    /\ pushPc[p] = "unlock"
    /\ po' = [po EXCEPT !.mutex = FALSE]
    /\ pushPc' = [pushPc EXCEPT ![p] = "signal"]
    /\ UNCHANGED <<pushItem, workerPc, upw, pushCount, popped>>
    /\ UNCHANGED <<schedVars, waitVars>>

\* po.trySendCh <- struct{}{}  (blocks while the channel is full)
PushSignal(p) ==
    /\ pushPc[p] = "signal"
    /\ po.trySendCh < TrySendChCap
    /\ po' = [po EXCEPT !.trySendCh = @ + 1]
    /\ pushPc' = [pushPc EXCEPT ![p] = "idle"]
    /\ pushItem' = [pushItem EXCEPT ![p] = NoItem]
    /\ UNCHANGED <<workerPc, upw, pushCount, popped>>
    /\ UNCHANGED <<schedVars, waitVars>>

\* case <-po.trySendCh
WorkerRecv ==
    /\ workerPc = "recv"
    /\ po.trySendCh > 0
    /\ po' = [po EXCEPT !.trySendCh = @ - 1]
    /\ workerPc' = "lock"
    /\ UNCHANGED <<pushPc, pushItem, upw, pushCount, popped>>
    /\ UNCHANGED <<schedVars, waitVars>>

\* po.mutex.Lock()
WorkerLock ==
    /\ workerPc = "lock"
    /\ ~po.mutex
    /\ po' = [po EXCEPT !.mutex = TRUE]
    /\ workerPc' = "loop"
    /\ UNCHANGED <<pushPc, pushItem, upw, pushCount, popped>>
    /\ UNCHANGED <<schedVars, waitVars>>

\* Mutant: the head is released whatever its sequence.
HeadReadyAny(q, next) == Len(q) > 0

\* po.queue.Len() > 0 && (*po.queue)[0].Sequence == po.nextSequence
HeadReady(q, next) == Len(q) > 0 /\ q[1].Sequence = next

\* The loop condition and, when it holds, heap.Pop and nextSequence += 1.
WorkerLoop ==
    /\ workerPc = "loop"
    /\ IF HeadReady(po.queue, po.nextSequence)
       THEN /\ upw' = heapPopItem(po.queue)
            /\ po' = [po EXCEPT !.queue = heapPopQueue(@),
                                !.nextSequence = @ + 1]
            /\ workerPc' = "send"
       ELSE /\ workerPc' = "unlock"
            /\ UNCHANGED <<po, upw>>
    /\ UNCHANGED <<pushPc, pushItem, pushCount, popped>>
    /\ UNCHANGED <<schedVars, waitVars>>

\* po.processCh <- upw  (blocks while the channel is full)
WorkerSend ==
    /\ workerPc = "send"
    /\ Len(po.processCh) < ProcessChCap
    /\ po' = [po EXCEPT !.processCh = Append(@, upw)]
    /\ upw' = NoItem
    /\ workerPc' = "loop"
    /\ UNCHANGED <<pushPc, pushItem, pushCount, popped>>
    /\ UNCHANGED <<schedVars, waitVars>>

\* po.mutex.Unlock()
WorkerUnlock ==
    /\ workerPc = "unlock"
    /\ po' = [po EXCEPT !.mutex = FALSE]
    /\ workerPc' = "recv"
    /\ UNCHANGED <<pushPc, pushItem, upw, pushCount, popped>>
    /\ UNCHANGED <<schedVars, waitVars>>

\* upw := <-po.processCh; return upw
Pop ==
    /\ Len(po.processCh) > 0
    /\ popped' = Append(popped, Head(po.processCh))
    /\ po' = [po EXCEPT !.processCh = Tail(@)]
    /\ UNCHANGED <<pushPc, pushItem, workerPc, upw, pushCount>>
    /\ UNCHANGED <<schedVars, waitVars>>

Worker == WorkerRecv \/ WorkerLock \/ WorkerLoop \/ WorkerSend \/ WorkerUnlock

PushSteps(p) == PushLock(p) \/ PushInsert(p) \/ PushUnlock(p) \/ PushSignal(p)

\* Callers use distinct sequence numbers.
NextPO ==
    \/ \E p \in Producers : \E n \in Seqs : PushCall(p, n, 0)
    \/ \E p \in Producers : PushSteps(p)
    \/ Worker
    \/ Pop

(***************************************************************************)
(* UnpackedProposalWrapper: Done / Wait over the unbuffered doneCh of the  *)
(* item of each sequence (NewUnpackedProposalWrapper makes the channel).   *)
(* Each is called at most once per item, by different goroutines.          *)
(***************************************************************************)
\* upw.Done() is called: the goroutine reaches upw.doneCh <- struct{}{}.
DoneCall(n) ==
    /\ donePc[n] = "idle"
    /\ donePc' = [donePc EXCEPT ![n] = "send"]
    /\ UNCHANGED <<waitPc, waitAgainPc, poVars, schedVars>>

\* upw.Wait() is called: the goroutine reaches <-upw.doneCh.
WaitCall(n) ==
    /\ waitPc[n] = "idle"
    /\ waitPc' = [waitPc EXCEPT ![n] = "recv"]
    /\ UNCHANGED <<donePc, waitAgainPc, poVars, schedVars>>

\* Mutant: the receive completes without a sender (as on a closed channel).
CanHandOffNoSender(d, w) == w = "recv"

\* doneCh has no buffer: the send and the receive complete together, when a
\* sender and a receiver are both at the channel.
CanHandOff(d, w) == d = "send" /\ w = "recv"

HandOff(n) ==
    /\ CanHandOff(donePc[n], waitPc[n])
    /\ donePc' = [donePc EXCEPT ![n] = IF @ = "send" THEN "sent" ELSE @]
    /\ waitPc' = [waitPc EXCEPT ![n] = "received"]
    /\ UNCHANGED <<waitAgainPc, poVars, schedVars>>

\* Done returns.
DoneReturn(n) ==
    /\ donePc[n] = "sent"
    /\ donePc' = [donePc EXCEPT ![n] = "returned"]
    /\ UNCHANGED <<waitPc, waitAgainPc, poVars, schedVars>>

\* Wait returns.
WaitReturn(n) ==
    /\ waitPc[n] = "received"
    /\ waitPc' = [waitPc EXCEPT ![n] = "returned"]
    /\ UNCHANGED <<donePc, waitAgainPc, poVars, schedVars>>

Rendezvous(n) == HandOff(n) \/ DoneReturn(n) \/ WaitReturn(n)

NextWait ==
    \/ \E n \in Seqs : DoneCall(n)
    \/ \E n \in Seqs : WaitCall(n)
    \/ \E n \in Seqs : Rendezvous(n)

\* A second goroutine calls upw.Wait() on the item.
WaitAgainCall(n) ==
    /\ waitAgainPc[n] = "idle"
    /\ waitAgainPc' = [waitAgainPc EXCEPT ![n] = "recv"]
    /\ UNCHANGED <<donePc, waitPc, poVars, schedVars>>

\* Mutant: the send completes with the receiver still blocked, as if the
\* value went into a buffer.
HandOffAgainBuffered(n) ==
    /\ CanHandOff(donePc[n], waitAgainPc[n])
    /\ donePc' = [donePc EXCEPT ![n] = "sent"]
    /\ UNCHANGED <<waitPc, waitAgainPc, poVars, schedVars>>

\* The send of Done completes together with the receive of the second Wait.
HandOffAgain(n) ==
    /\ CanHandOff(donePc[n], waitAgainPc[n])
    /\ donePc' = [donePc EXCEPT ![n] = "sent"]
    /\ waitAgainPc' = [waitAgainPc EXCEPT ![n] = "received"]
    /\ UNCHANGED <<waitPc, poVars, schedVars>>

\* The second Wait returns.
WaitAgainReturn(n) ==
    /\ waitAgainPc[n] = "received"
    /\ waitAgainPc' = [waitAgainPc EXCEPT ![n] = "returned"]
    /\ UNCHANGED <<donePc, waitPc, poVars, schedVars>>

\* One Done and up to two Wait calls on each item.
NextWaitAgain ==
    \/ NextWait
    \/ \E n \in Seqs : WaitAgainCall(n)
    \/ \E n \in Seqs : HandOffAgain(n)
    \/ \E n \in Seqs : WaitAgainReturn(n)

(***************************************************************************)
(* Scheduler                                                               *)
(***************************************************************************)
\* Largest byte size of an envelope handed to Schedule.
MaxMsgSize == 3
MsgSizes == 1 .. MaxMsgSize

\* The values of the *orderer.BatchSize argument (both fields are uint32).
\* PreferredMaxBytes ranges from below every envelope pair to above every
\* envelope; MaxMessageCount from 0 to the number of the callers' envelopes.
BatchSizes ==
    [PreferredMaxBytes : 1 .. (MaxMsgSize + 1),
     MaxMessageCount   : 0 .. NumSeq]


\* An envelope is known by the sequence its txID parses to and its byte size.
Envelope(n, size) == [seq |-> n, size |-> size]

\* The nil *cb.Envelope, which a lookup of a missing map key yields.
NilEnvelope == [seq |-> -1, size |-> 0]

\* messageSizeBytes(msg): the byte size of the envelope.
messageSizeBytes(msg) == msg.size

NewScheduler ==
    [metrics               |-> << >>,   \* BlockFillDuration observations
     envelopes             |-> << >>,   \* map[int]*cb.Envelope, empty
     startSequence         |-> 0,
     nextSequence          |-> 0,
     batchSize             |-> 0,
     pendingBatchStartTime |-> 0]       \* the zero time.Time

\* s.envelopes[i], nil when the key is missing.
EnvelopeAt(envelopes, i) ==
    IF i \in DOMAIN envelopes THEN envelopes[i] ELSE NilEnvelope

\* Mutant: the guard lets start = end through.
CutPanicsStrict(start, end) == start > end

\* if start >= end { logger.Panicf(...) }
CutPanics(start, end) == start >= end

\* batch = append(batch, s.envelopes[i]) for i := start; i < end; i++
CutBatch(envelopes, start, end) ==
    [i \in 1 .. (end - start) |-> EnvelopeAt(envelopes, start + i - 1)]

\* Mutant: the envelopes of the batch are not deleted from the map.
CutNoDelete(sch, end, t) ==
    LET start == sch.startSequence IN
    IF CutPanics(start, end)
    THEN [s |-> sch, batch |-> << >>, panic |-> TRUE]
    ELSE [s |-> [sch EXCEPT
                   !.metrics = Append(@, t - sch.pendingBatchStartTime),
                   !.startSequence = end],
          batch |-> CutBatch(sch.envelopes, start, end),
          panic |-> FALSE]

\* Scheduler.Cut(end) at time t: the scheduler afterwards, the batch returned,
\* and whether the call panicked (then nothing was changed).
Cut(sch, end, t) ==
    LET start == sch.startSequence IN
    IF CutPanics(start, end)
    THEN [s |-> sch, batch |-> << >>, panic |-> TRUE]
    ELSE [s |-> [sch EXCEPT
                   !.metrics = Append(@, t - sch.pendingBatchStartTime),
                   !.envelopes = [k \in (DOMAIN @) \ (start .. (end - 1)) |-> @[k]],
                   !.startSequence = end],
          batch |-> CutBatch(sch.envelopes, start, end),
          panic |-> FALSE]

\* The state of a Schedule call in progress: the scheduler, messageBatches,
\* whether a Cut panicked, and the iterations of the for loop made so far.
CutInto(r, end, t) ==
    IF r.panic THEN r
    ELSE LET c == Cut(r.s, end, t) IN
         IF c.panic THEN [r EXCEPT !.panic = TRUE]
         ELSE [r EXCEPT !.s = c.s, !.batches = Append(@, c.batch)]

SetBatchSize(r, v) == IF r.panic THEN r ELSE [r EXCEPT !.s.batchSize = v]

SetStartTime(r, t) ==
    IF r.panic THEN r ELSE [r EXCEPT !.s.pendingBatchStartTime = t]

\* Lines 53-88: the byte-size decision for the envelope just counted.
\* messageSize is taken from msg, the argument of this Schedule call.
ByteThreshold(r, msg, batchSize, t) ==
    LET messageSize  == messageSizeBytes(msg)
        newBatchSize == r.s.batchSize + messageSize
        next         == r.s.nextSequence
    IN  IF newBatchSize < batchSize.PreferredMaxBytes
        THEN SetBatchSize(r, newBatchSize)
        ELSE IF newBatchSize > batchSize.PreferredMaxBytes
        THEN IF next - r.s.startSequence = 1
             THEN SetBatchSize(CutInto(r, next, t), 0)
             ELSE LET r1 == CutInto(r, next - 1, t) IN
                  IF messageSize >= batchSize.PreferredMaxBytes
                  THEN SetBatchSize(CutInto(SetStartTime(r1, t), next, t), 0)
                  ELSE SetBatchSize(r1, messageSize)
        ELSE SetBatchSize(CutInto(r, next, t), 0)

\* Mutant: the count test is > instead of >=.
CountReachedStrict(count, batchSize) ==
    count < 0 \/ count > batchSize.MaxMessageCount

\* uint32(s.nextSequence-s.startSequence) >= batchSize.MaxMessageCount.  The
\* conversion turns a negative difference into a value of at least 2^31,
\* above every MaxMessageCount of the model.
CountReached(count, batchSize) ==
    count < 0 \/ count >= batchSize.MaxMessageCount

\* Mutant: the count cut leaves the accumulated bytes as they are.
CountThresholdNoReset(r, batchSize, t) ==
    IF r.panic THEN r
    ELSE IF CountReached(r.s.nextSequence - r.s.startSequence, batchSize)
    THEN CutInto(r, r.s.nextSequence, t)
    ELSE r

\* Lines 90-94: the count decision.
CountThreshold(r, batchSize, t) ==
    IF r.panic THEN r
    ELSE IF CountReached(r.s.nextSequence - r.s.startSequence, batchSize)
    THEN SetBatchSize(CutInto(r, r.s.nextSequence, t), 0)
    ELSE r

\* Mutant: the drain goes on past a missing sequence when a later one is held.
DrainStopsLate(envelopes, next) ==
    \A k \in DOMAIN envelopes : k < next

\* _, exist := s.envelopes[s.nextSequence]; if !exist { break }
DrainStops(envelopes, next) == next \notin DOMAIN envelopes

\* One iteration of the for loop, as an observer of the call sees it: the
\* envelope released (s.envelopes[s.nextSequence] as the iteration began), the
\* scheduler's fields before it, between the byte-size branches and the count
\* test, and after it, and the batches the iteration cut.
Iteration(r, mid, after) ==
    [item        |-> EnvelopeAt(r.s.envelopes, r.s.nextSequence),
     accBefore   |-> r.s.batchSize,
     startBefore |-> r.s.startSequence,
     startMid    |-> mid.s.startSequence,
     cut         |-> SubSeq(after.batches, Len(r.batches) + 1, Len(after.batches)),
     accAfter    |-> after.s.batchSize,
     startAfter  |-> after.s.startSequence,
     panic       |-> after.panic]

\* Lines 45-95: the for loop.
RECURSIVE Drain(_, _, _, _)
Drain(r, msg, batchSize, t) ==
    IF r.panic \/ DrainStops(r.s.envelopes, r.s.nextSequence) THEN r
    ELSE LET counted == [r EXCEPT !.s.nextSequence = @ + 1]
             mid     == ByteThreshold(counted, msg, batchSize, t)
             after   == CountThreshold(mid, batchSize, t)
         IN  Drain([after EXCEPT !.steps = Append(@, Iteration(r, mid, after))],
                   msg, batchSize, t)

\* Mutant: the test of line 40 is left out, the body runs in every call.
ScheduleCallAlways(sch, msg, txSequence, batchSize, t) ==
    LET stored == [sch EXCEPT !.envelopes = (txSequence :> msg) @@ @]
        r0     == [s |-> stored, batches |-> << >>, panic |-> FALSE,
                   steps |-> << >>]
    IN  Drain(IF sch.nextSequence = sch.startSequence
              THEN SetStartTime(r0, t) ELSE r0,
              msg, batchSize, t)

\* Scheduler.Schedule(msg, txID, batchSize) at time t, txSequence being what
\* util.ParseCustomTXID returns for txID.
\* The result holds the scheduler afterwards, messageBatches, whether a
\* Cut panicked, and the iterations of the for loop.
ScheduleCall(sch, msg, txSequence, batchSize, t) ==
    LET stored == [sch EXCEPT !.envelopes = (txSequence :> msg) @@ @]
        r0     == [s |-> stored, batches |-> << >>, panic |-> FALSE,
                   steps |-> << >>]
    IN  IF sch.nextSequence = txSequence
        THEN Drain(IF sch.nextSequence = sch.startSequence
                   THEN SetStartTime(r0, t) ELSE r0,
                   msg, batchSize, t)
        ELSE r0

\* Mutant: only the forming batch counts as pending.
PendingForming(sch) == sch.nextSequence > sch.startSequence

\* pending := len(s.envelopes) > 0
Pending(sch) == DOMAIN sch.envelopes # {}

\* A BatchSize under which both byte cuts and count cuts happen.
TypicalBatchSize ==
    [PreferredMaxBytes |-> MaxMsgSize + 1, MaxMessageCount |-> NumSeq - 1]

NoCall ==
    [op |-> "none", msg |-> NilEnvelope, txSequence |-> -1, end |-> -1,
     batchSize |-> [PreferredMaxBytes |-> 0, MaxMessageCount |-> 0],
     batches |-> << >>, pending |-> FALSE, steps |-> << >>]

InitSched ==
    /\ s = NewScheduler
    /\ now = 1
    /\ panicked = FALSE
    /\ schedCount = [n \in Seqs |-> 0]
    /\ scheduled = {}
    /\ emitted = << >>
    /\ ret = NoCall
    /\ config = TypicalBatchSize
    /\ releasedAt = [n \in Seqs |-> 0]

\* One call of Schedule by the single caller; at most `repeats` calls repeat
\* a sequence number.  A panic leaves the scheduler as the unwinding found it and
\* returns nothing.
Schedule(msg, batchSize, repeats) ==
    /\ ~panicked
    /\ MayUse(schedCount, msg.seq, repeats)
    /\ \E r \in {ScheduleCall(s, msg, msg.seq, batchSize, now)} :
       /\ s' = r.s
       /\ panicked' = r.panic
       /\ emitted' = IF r.panic THEN emitted ELSE emitted \o r.batches
       /\ ret' = [op |-> IF r.panic THEN "panic" ELSE "Schedule",
                  msg |-> msg, txSequence |-> msg.seq, end |-> -1,
                  batchSize |-> batchSize,
                  batches |-> IF r.panic THEN << >> ELSE r.batches,
                  pending |-> IF r.panic THEN FALSE ELSE Pending(r.s),
                  steps |-> r.steps]
       /\ releasedAt' =
             [n \in Seqs |->
                 IF \E i \in 1 .. Len(r.steps) : r.steps[i].item.seq = n
                 THEN now ELSE releasedAt[n]]
    /\ now' = now + 1
    /\ schedCount' = [schedCount EXCEPT ![msg.seq] = @ + 1]
    /\ scheduled' = scheduled \cup {msg}
    /\ UNCHANGED <<config, poVars, waitVars>>

\* A direct call of Cut(end) by the caller (an explicit boundary flush).
CutCall(end) ==
    /\ ~panicked
    /\ \E c \in {Cut(s, end, now)} :
       /\ s' = c.s
       /\ panicked' = c.panic
       /\ emitted' = IF c.panic THEN emitted ELSE Append(emitted, c.batch)
       /\ ret' = [op |-> IF c.panic THEN "panic" ELSE "Cut",
                  msg |-> NilEnvelope, txSequence |-> -1, end |-> end,
                  batchSize |-> NoCall.batchSize,
                  batches |-> IF c.panic THEN << >> ELSE <<c.batch>>,
                  pending |-> FALSE, steps |-> << >>]
    /\ now' = now + 1
    /\ UNCHANGED <<schedCount, scheduled, config, releasedAt, poVars, waitVars>>

\* The smallest and the largest envelope size.
ExtremeSizes == {1, MaxMsgSize}

\* Callers use distinct sequence numbers and pass any BatchSize, call by call.
NextSched ==
    \E n \in Seqs : \E size \in ExtremeSizes : \E batchSize \in BatchSizes :
        Schedule(Envelope(n, size), batchSize, 0)

\* The same callers, every BatchSize they pass having MaxMessageCount >= 1.
NextSchedCounted ==
    \E n \in Seqs : \E size \in ExtremeSizes :
        \E batchSize \in {b \in BatchSizes : b.MaxMessageCount >= 1} :
            Schedule(Envelope(n, size), batchSize, 0)

Init == InitPO /\ InitSched

\* The same engines, the Scheduler's caller having one BatchSize for all calls.
InitFixed ==
    /\ InitPO
    /\ s = NewScheduler
    /\ now = 1
    /\ panicked = FALSE
    /\ schedCount = [n \in Seqs |-> 0]
    /\ scheduled = {}
    /\ emitted = << >>
    /\ ret = NoCall
    /\ config \in BatchSizes
    /\ releasedAt = [n \in Seqs |-> 0]

NextFixed ==
    \E n \in Seqs : \E size \in MsgSizes :
        Schedule(Envelope(n, size), config, 0)

\* Schedule calls with one BatchSize, and direct Cut calls.
NextCut ==
    \/ NextFixed
    \/ \E end \in 0 .. NumSeq : CutCall(end)

\* Callers may repeat a sequence number.
NextPODup ==
    \/ \E p \in Producers : \E n \in Seqs : PushCall(p, n, MaxRepeats)
    \/ \E p \in Producers : PushSteps(p)
    \/ Worker
    \/ Pop

\* One call may repeat a sequence number, one that is below nextSequence
\* when Push is called (a stale push).
NextPOStale ==
    \/ \E p \in Producers : \E n \in Seqs :
          /\ pushCount[n] > 0 => n < po.nextSequence
          /\ PushCall(p, n, 1)
    \/ \E p \in Producers : PushSteps(p)
    \/ Worker
    \/ Pop

NextFixedDup ==
    \E n \in Seqs : \E size \in MsgSizes :
        Schedule(Envelope(n, size), config, MaxRepeats)

\* The engines share no state.  In the specifications that cover both, a
\* behaviour runs the ProposalOrderer while the Scheduler is as constructed,
\* and the Scheduler once every goroutine of the ProposalOrderer is idle or
\* blocked; the Scheduler's caller then passes TypicalBatchSize every time.
PoIdle ==
    /\ \A p \in Producers : pushPc[p] = "idle"
    /\ workerPc = "recv"
    /\ po.trySendCh = 0
    /\ po.processCh = << >>

SchedQuiet == s = NewScheduler /\ ret = NoCall

NextBoth ==
    \/ SchedQuiet /\ NextPO
    \/ PoIdle /\ NextFixed

NextBothDup ==
    \/ SchedQuiet /\ NextPODup
    \/ PoIdle /\ NextFixedDup

SpecPO == Init /\ [][NextPO]_vars

\* Goroutines that can run are scheduled, and a goroutine waiting for the
\* mutex or a channel proceeds once it stays available.
FairPO ==
    /\ SpecPO
    /\ WF_vars(Worker)
    /\ WF_vars(Pop)
    /\ \A p \in Producers : WF_vars(PushSteps(p))

SpecWait == Init /\ [][NextWait]_vars

\* A goroutine whose channel operation can complete, or that can return, runs.
FairWait == SpecWait /\ \A n \in Seqs : WF_vars(Rendezvous(n))

SpecWaitAgain == Init /\ [][NextWaitAgain]_vars

SpecSched == Init /\ [][NextSched]_vars

SpecCounted == Init /\ [][NextSchedCounted]_vars

SpecFixed == InitFixed /\ [][NextFixed]_vars

SpecCut == Init /\ [][NextCut]_vars

SpecBoth == Init /\ [][NextBoth]_vars

SpecDup == Init /\ [][NextBothDup]_vars

\* The ProposalOrderer alone, with callers that may push again a sequence the
\* worker has already released.
SpecStale == Init /\ [][NextPOStale]_vars

(***************************************************************************)
(* Properties                                                              *)
(***************************************************************************)
RECURSIVE Flatten(_)
Flatten(batches) ==
    IF batches = << >> THEN << >> ELSE Head(batches) \o Flatten(Tail(batches))

RECURSIVE BatchBytes(_)
BatchBytes(batch) ==
    IF batch = << >> THEN 0 ELSE Head(batch).size + BatchBytes(Tail(batch))

\* The items handed to the hand-off queue so far, in hand-off order.
Forwarded == popped \o po.processCh

\* The sequences the worker took out of the priority queue so far.
Released ==
    {Forwarded[i].Sequence : i \in 1 .. Len(Forwarded)}
        \cup (IF upw = NoItem THEN {} ELSE {upw.Sequence})

\* The sequences inserted into the priority queue so far.
Arrived == Released \cup {po.queue[i].Sequence : i \in 1 .. Len(po.queue)}

\* The forming batch: the envelopes counted since the last cut.
FormingBatch ==
    [i \in 1 .. (s.nextSequence - s.startSequence) |->
        EnvelopeAt(s.envelopes, s.startSequence + i - 1)]

ScheduledSeqs == {e.seq : e \in scheduled}

\* C1: for distinct sequences pushed in any order and interleaving, the items
\* forwarded to the hand-off queue and returned by Pop carry the sequences
\* 0, 1, 2, ... in ascending order without a gap.
C1_OrderPreserved ==
    \A i \in 1 .. Len(Forwarded) : Forwarded[i].Sequence = i - 1

\* Pop has returned while a later sequence waits in the priority queue for
\* one that was not pushed yet.
C1_Witness ==
    /\ Len(popped) >= 1
    /\ po.nextSequence < NumSeq
    /\ pushCount[po.nextSequence] = 0
    /\ \E i \in 1 .. Len(po.queue) : po.queue[i].Sequence > po.nextSequence

\* C2: the batches emitted so far followed by the forming batch are exactly
\* the scheduled envelopes 0 .. nextSequence-1 in sequence order, each once;
\* every other scheduled envelope is held in the map behind a gap.
C2_Completeness ==
    LET out == Flatten(emitted) \o FormingBatch IN
    /\ Len(out) = s.nextSequence
    /\ \A i \in 1 .. Len(out) : out[i] \in scheduled /\ out[i].seq = i - 1
    /\ \A e \in scheduled :
          e.seq >= s.nextSequence =>
              /\ e.seq > s.nextSequence
              /\ EnvelopeAt(s.envelopes, e.seq) = e
    /\ DOMAIN s.envelopes =
          {k \in ScheduledSeqs : k >= s.startSequence}

\* C3: while sequence k has not arrived, neither engine releases anything
\* above k: the ProposalOrderer has forwarded or taken from the queue only
\* sequences below k, and the Scheduler's nextSequence is at most k and its
\* batches hold only sequences below k.
C3_GapBlocking ==
    /\ \A k \in Seqs :
          k \notin Arrived =>
              /\ po.nextSequence <= k
              /\ \A n \in Released : n < k
    /\ \A k \in Seqs :
          k \notin ScheduledSeqs =>
              /\ s.nextSequence <= k
              /\ \A i \in 1 .. Len(Flatten(emitted)) : Flatten(emitted)[i].seq < k
              /\ \A i \in 1 .. Len(Flatten(ret.batches)) :
                    Flatten(ret.batches)[i].seq < k

\* Both engines hold a later sequence behind a gap after releasing sequence 0.
C3_Witness ==
    /\ po.nextSequence = 1 /\ 1 \notin Arrived /\ 2 \in Arrived
    /\ Len(popped) = 1
    /\ s.nextSequence = 1 /\ 1 \notin ScheduledSeqs /\ 2 \in DOMAIN s.envelopes

\* C4: once every sequence 0 .. NumSeq-1 was pushed (exactly once), the
\* consumer's Pop calls eventually return all NumSeq items.
C4_Delivery ==
    (\A n \in Seqs : pushCount[n] = 1) ~> (Len(popped) = NumSeq)

\* All items were returned although a producer has not sent its signal yet.
C4_Witness ==
    /\ Len(popped) = NumSeq
    /\ \E p \in Producers : pushPc[p] = "signal"

\* C5: every batch a Schedule call returns has a byte sum strictly below the
\* PreferredMaxBytes passed to the call, or holds exactly one envelope.
C5_BatchByteBound ==
    \A i \in 1 .. Len(ret.batches) :
        \/ BatchBytes(ret.batches[i]) < ret.batchSize.PreferredMaxBytes
        \/ Len(ret.batches[i]) = 1

\* C6: a batch a Schedule call returns whose envelopes sum to more than
\* PreferredMaxBytes consists of exactly one envelope.
C6_SoftByteCeiling ==
    \A i \in 1 .. Len(ret.batches) :
        BatchBytes(ret.batches[i]) > ret.batchSize.PreferredMaxBytes
            => Len(ret.batches[i]) = 1

\* C7 as stated: every batch a Schedule call returns holds at most the
\* MaxMessageCount passed to that call.
C7_CountBound ==
    \A i \in 1 .. Len(ret.batches) :
        Len(ret.batches[i]) <= ret.batchSize.MaxMessageCount

\* C7 amended: every batch a Schedule call returns holds at most
\* MaxMessageCount envelopes, or, when the forming batch already held
\* c >= MaxMessageCount envelopes as the call began, at most c + 1.
C7_CountBoundAmended ==
    [][\A i \in 1 .. Len(ret'.batches) :
          LET c == s.nextSequence - s.startSequence
              m == ret'.batchSize.MaxMessageCount
          IN  \/ Len(ret'.batches[i]) <= m
              \/ c >= m /\ Len(ret'.batches[i]) <= c + 1]_vars

\* A Schedule call returned a batch of exactly MaxMessageCount >= 2 envelopes.
C7_Witness ==
    /\ ret.op = "Schedule"
    /\ ret.batchSize.MaxMessageCount >= 2
    /\ \E i \in 1 .. Len(ret.batches) :
          Len(ret.batches[i]) = ret.batchSize.MaxMessageCount

\* C8: no Push waits for the mutex while the worker holds it blocked on a
\* full hand-off queue (which only a Pop of the consumer can unblock).
C8_PushNeverBlocksOnConsumer ==
    ~ /\ \E p \in Producers : pushPc[p] = "lock"
      /\ workerPc = "send"
      /\ po.mutex
      /\ Len(po.processCh) = ProcessChCap

\* C9: a direct Cut(end) with end <= startSequence panics, and has then
\* observed no fill duration, returned no batch and changed nothing of the
\* scheduler.
C9_CutInvariantFatal ==
    [][(ret'.end # -1 /\ now' # now /\ ret'.end <= s.startSequence)
          => /\ panicked'
             /\ ret'.op = "panic"
             /\ s' = s
             /\ emitted' = emitted]_vars

\* Cut panicked on an end at or below startSequence after earlier cuts.
C9_Witness ==
    /\ panicked
    /\ ret.end # -1
    /\ ret.end <= s.startSequence
    /\ s.startSequence > 0
    /\ Len(s.metrics) > 0

\* C10: a Push or Schedule whose sequence is already pending or released is
\* rejected as a duplicate sequence and not inserted.
C10_DuplicateRejected ==
    [][/\ \A p \in Producers :
            ( /\ pushPc[p] = "insert"
              /\ pushPc'[p] = "unlock"
              /\ pushItem[p].Sequence \in Arrived )
                => po'.queue = po.queue
       /\ \A k \in Seqs :
            ( /\ schedCount'[k] > schedCount[k]
              /\ (k \in DOMAIN s.envelopes \/ k < s.nextSequence) )
                => /\ s'.envelopes = s.envelopes
                   /\ ret'.op = "duplicate sequence"]_vars

\* C11: Wait on an item never returns (nor completes its receive) before Done
\* was invoked on that item; and once Done and Wait have each been invoked on
\* an item, in either order, both calls eventually return.
C11_Rendezvous ==
    /\ [](\A n \in Seqs :
            waitPc[n] \in {"received", "returned"} => donePc[n] # "idle")
    /\ \A n \in Seqs :
          (donePc[n] # "idle" /\ waitPc[n] # "idle")
              ~> (donePc[n] = "returned" /\ waitPc[n] = "returned")

\* One item's Wait has returned before its Done did; on another item Done
\* is blocked with no Wait called; on a third Wait is blocked with no Done.
C11_Witness ==
    /\ \E n \in Seqs : waitPc[n] = "returned" /\ donePc[n] = "sent"
    /\ \E n \in Seqs : donePc[n] = "send" /\ waitPc[n] = "idle"
    /\ \E n \in Seqs : waitPc[n] = "recv" /\ donePc[n] = "idle"

\* The scheduled envelopes that no emitted batch holds.
NotEmitted ==
    {e \in scheduled :
        \A i \in 1 .. Len(Flatten(emitted)) : Flatten(emitted)[i] # e}

\* C12: the boolean a Schedule call returns is true if and only if, after the
\* call, some scheduled envelope is in no emitted batch.
C12_PendingAccurate ==
    ret.op = "Schedule" => (ret.pending <=> NotEmitted # {})

\* A call that emitted a batch and left the forming batch empty returned true
\* because of an envelope held behind a gap.
C12_Witness ==
    /\ ret.op = "Schedule"
    /\ ret.pending
    /\ Len(ret.batches) >= 1
    /\ s.startSequence = s.nextSequence
    /\ \E k \in DOMAIN s.envelopes : k > s.nextSequence

\* The envelopes startBefore .. item.seq-1: the forming batch as an iteration
\* of the for loop began (the call's envelopes are still in `scheduled`).
FormingBefore(step) ==
    [i \in 1 .. (step.item.seq - step.startBefore) |->
        CHOOSE e \in scheduled : e.seq = step.startBefore + i - 1]

\* C13: an iteration that begins with a non-empty forming batch of A
\* accumulated bytes and releases an envelope of size sz, A + sz above
\* PreferredMaxBytes and sz below it, with MaxMessageCount above 1, cuts
\* exactly one batch, the forming batch without the released envelope, and
\* leaves the released envelope alone in the forming batch with sz bytes.
C13_OverflowCut ==
    ret.op = "Schedule" =>
        \A i \in 1 .. Len(ret.steps) :
            LET step == ret.steps[i]
                sz   == step.item.size
            IN  ( /\ step.item.seq > step.startBefore
                  /\ step.accBefore + sz > ret.batchSize.PreferredMaxBytes
                  /\ sz < ret.batchSize.PreferredMaxBytes
                  /\ ret.batchSize.MaxMessageCount > 1 )
                => /\ step.cut = <<FormingBefore(step)>>
                   /\ step.startAfter = step.item.seq
                   /\ step.accAfter = sz

\* C14: an iteration that releases an envelope larger than PreferredMaxBytes
\* cuts it in a batch of its own: the only batch when the forming batch was
\* empty, the second one after the batch of the accumulated envelopes when it
\* was not; afterwards the forming batch is empty with 0 accumulated bytes.
C14_OversizedSingleton ==
    ret.op = "Schedule" =>
        \A i \in 1 .. Len(ret.steps) :
            LET step == ret.steps[i] IN
            step.item.size > ret.batchSize.PreferredMaxBytes
                => /\ step.cut = IF step.item.seq = step.startBefore
                                 THEN << <<step.item>> >>
                                 ELSE <<FormingBefore(step), <<step.item>> >>
                   /\ step.startAfter = step.item.seq + 1
                   /\ step.accAfter = 0

\* C15: an iteration in which the accumulated bytes plus the size of the
\* released envelope equal PreferredMaxBytes cuts one batch, the forming batch
\* with the released envelope; afterwards the forming batch is empty with 0
\* accumulated bytes.
C15_ExactThresholdCut ==
    ret.op = "Schedule" =>
        \A i \in 1 .. Len(ret.steps) :
            LET step == ret.steps[i] IN
            step.accBefore + step.item.size = ret.batchSize.PreferredMaxBytes
                => /\ step.cut = <<Append(FormingBefore(step), step.item)>>
                   /\ step.startAfter = step.item.seq + 1
                   /\ step.accAfter = 0

\* The number of envelopes in the forming batch.
FormingCount == s.nextSequence - s.startSequence

\* The envelopes startMid .. item.seq: what an iteration has accumulated since
\* the last cut when it reaches the count test.
FormingMid(step) ==
    [i \in 1 .. (step.item.seq + 1 - step.startMid) |->
        CHOOSE e \in scheduled : e.seq = step.startMid + i - 1]

\* C16 as stated: an iteration that brings the envelopes accumulated since
\* the last cut to MaxMessageCount cuts them all in one batch, the released
\* envelope included, and resets the accumulated bytes; and after every
\* Schedule call the forming batch holds fewer than MaxMessageCount envelopes.
C16_CountForcedCut ==
    ret.op = "Schedule" =>
        /\ \A i \in 1 .. Len(ret.steps) :
              LET step == ret.steps[i] IN
              step.item.seq + 1 - step.startMid = ret.batchSize.MaxMessageCount
                  => /\ step.cut # << >>
                     /\ step.cut[Len(step.cut)] = FormingMid(step)
                     /\ step.startAfter = step.item.seq + 1
                     /\ step.accAfter = 0
        /\ FormingCount < ret.batchSize.MaxMessageCount

\* C16 amended: under a MaxMessageCount of 1 or more, an iteration that
\* brings the envelopes accumulated since the last cut to MaxMessageCount or
\* more cuts them all in one batch, the released envelope included, and resets
\* the accumulated bytes; the call returns, and if it released an envelope it
\* leaves fewer than MaxMessageCount envelopes in the forming batch.
C16_CountForcedCutAmended ==
    (ret.op # "none" /\ ret.batchSize.MaxMessageCount >= 1) =>
        /\ ret.op = "Schedule"
        /\ \A i \in 1 .. Len(ret.steps) :
              LET step == ret.steps[i] IN
              step.item.seq + 1 - step.startMid >= ret.batchSize.MaxMessageCount
                  => /\ step.cut # << >>
                     /\ step.cut[Len(step.cut)] = FormingMid(step)
                     /\ step.startAfter = step.item.seq + 1
                     /\ step.accAfter = 0
        /\ ret.steps # << >> => FormingCount < ret.batchSize.MaxMessageCount

\* A call released three envelopes under MaxMessageCount = 2: the count test
\* cut the first two, and the third started a new forming batch.
C16_Witness ==
    /\ ret.op = "Schedule"
    /\ ret.batchSize.MaxMessageCount = 2
    /\ Len(ret.steps) = 3
    /\ Len(ret.steps[2].cut) = 1 /\ Len(ret.steps[2].cut[1]) = 2
    /\ ret.steps[2].startMid = ret.steps[2].startBefore
    /\ FormingCount = 1

\* C17: after every Schedule call the accumulated bytes (batchSize) are the
\* sum of the byte sizes of the envelopes of the forming batch.
C17_AccumulatedBytes ==
    ret.op = "Schedule" => s.batchSize = BatchBytes(FormingBatch)

\* C18: no Schedule call makes Cut panic (Cut is never called with
\* end <= startSequence from inside Schedule).
C18_ScheduleNeverPanics == ~panicked

\* C19: a direct Cut(nextSequence) on a non-empty forming batch returns
\* exactly the forming batch, removes its envelopes from the map and leaves
\* the scheduler as a cut inside Schedule leaves it: the forming batch empty
\* and 0 accumulated bytes.
C19_BoundaryFlush ==
    [][(ret'.end # -1 /\ now' # now /\ ret'.end = s.nextSequence
            /\ s.startSequence < s.nextSequence)
          => /\ ret'.op = "Cut"
             /\ ret'.batches = <<FormingBatch>>
             /\ s'.startSequence = s.nextSequence
             /\ s'.nextSequence = s.nextSequence
             /\ s'.envelopes =
                    [k \in (DOMAIN s.envelopes)
                              \ (s.startSequence .. (s.nextSequence - 1))
                        |-> s.envelopes[k]]
             /\ s'.batchSize = 0]_vars

\* C20: the fill duration reported for every batch a Schedule call cuts is
\* the time from the call whose loop counted the first envelope of that batch
\* into the forming batch to the call that cuts it.
C20_FillDurationStart ==
    ret.op = "Schedule" =>
        \A i \in 1 .. Len(ret.batches) :
            s.metrics[Len(s.metrics) - Len(ret.batches) + i]
                = (now - 1) - releasedAt[ret.batches[i][1].seq]

\* Number of places (priority queue, the worker's hands, hand-off queue,
\* consumers) that hold an item of sequence n.
Holders(n) ==
    Cardinality({i \in 1 .. Len(po.queue) : po.queue[i].Sequence = n})
      + (IF upw # NoItem /\ upw.Sequence = n THEN 1 ELSE 0)
      + Cardinality({i \in 1 .. Len(Forwarded) : Forwarded[i].Sequence = n})

\* The Push call of sequence n has put its item in the priority queue.
Inserted(n) ==
    /\ pushCount[n] > 0
    /\ \A p \in Producers :
          (pushItem[p] # NoItem /\ pushItem[p].Sequence = n)
              => pushPc[p] \in {"unlock", "signal"}

\* C21: with distinct sequences, every item in the priority queue has a
\* sequence >= nextSequence, nextSequence never decreases, an inserted item
\* is in exactly one place (queue, worker, forwarded), and an item leaves the
\* queue only in the worker step where its sequence equals nextSequence,
\* which is the step that forwards it.
C21_BufferInvariant ==
    /\ [](/\ \A i \in 1 .. Len(po.queue) :
                po.queue[i].Sequence >= po.nextSequence
          /\ \A n \in Seqs : Holders(n) = IF Inserted(n) THEN 1 ELSE 0)
    /\ [][/\ po'.nextSequence >= po.nextSequence
          /\ \A i \in 1 .. Len(po.queue) :
                (\A j \in 1 .. Len(po'.queue) : po'.queue[j] # po.queue[i])
                    => /\ po.queue[i].Sequence = po.nextSequence
                       /\ po'.nextSequence = po.nextSequence + 1
                       /\ upw' = po.queue[i]
          /\ Forwarded' # Forwarded => Forwarded' = Append(Forwarded, upw)]_vars

\* Items 0 and 1 were forwarded in turn while item 2 waits in the queue.
C21_Witness ==
    /\ po.nextSequence = 2
    /\ Len(Forwarded) = 1
    /\ upw # NoItem /\ upw.Sequence = 1
    /\ Len(po.queue) = 1 /\ po.queue[1].Sequence = 2

\* C22: when no Push is in progress, the signal queue is empty and the worker
\* is idle at its select (not holding the lock), the priority queue holds no
\* item whose sequence equals nextSequence.
C22_NoLostWakeup ==
    (/\ \A p \in Producers : pushPc[p] = "idle"
     /\ po.trySendCh = 0
     /\ workerPc = "recv")
        => \A i \in 1 .. Len(po.queue) :
              po.queue[i].Sequence # po.nextSequence

\* The priority queue holds an item whose sequence is below nextSequence.
StaleQueued ==
    \E i \in 1 .. Len(po.queue) : po.queue[i].Sequence < po.nextSequence

\* C24: once an item with a sequence below nextSequence is in the priority
\* queue, a stale item is at the head of the queue and the worker holds no
\* item, and every later step keeps the stale items in the queue, keeps
\* nextSequence and forwards nothing: the hand-off queue only shrinks, so Pop
\* cannot proceed once it is empty.
C24_StalePushWedges ==
    /\ [](StaleQueued
            => /\ po.queue[1].Sequence < po.nextSequence
               /\ upw = NoItem
               /\ (po.processCh = << >> => ~ENABLED Pop))
    /\ [][StaleQueued
            => /\ Forwarded' = Forwarded
               /\ Len(po'.processCh) <= Len(po.processCh)
               /\ po'.nextSequence = po.nextSequence
               /\ \A i \in 1 .. Len(po.queue) :
                     \E j \in 1 .. Len(po'.queue) : po'.queue[j] = po.queue[i]]_vars

\* Sequence 0 was released and returned by Pop, then pushed again: the stale
\* item sits at the head, sequence 1 (= nextSequence) behind it stays in the
\* queue, and every goroutine is idle with the hand-off queue empty.
C24_Witness ==
    /\ po.nextSequence = 1
    /\ Len(popped) = 1
    /\ po.processCh = << >>
    /\ Len(po.queue) = 2
    /\ po.queue[1].Sequence = 0 /\ po.queue[2].Sequence = 1
    /\ \A p \in Producers : pushPc[p] = "idle"
    /\ po.trySendCh = 0 /\ workerPc = "recv"

\* C23: a Schedule call whose sequence differs from nextSequence returns no
\* batch and pending = true, stores the envelope under its sequence, and
\* leaves startSequence, nextSequence, the accumulated bytes, the start time
\* and the fill-duration observations as they were.
C23_OutOfOrderInsertion ==
    [][(now' # now /\ ret'.end = -1 /\ ret'.txSequence # s.nextSequence)
          => /\ ret'.op = "Schedule"
             /\ ret'.batches = << >>
             /\ ret'.pending = TRUE
             /\ ret'.steps = << >>
             /\ emitted' = emitted
             /\ s'.envelopes = (ret'.txSequence :> ret'.msg) @@ s.envelopes
             /\ ret'.txSequence \notin DOMAIN s.envelopes
             /\ s'.startSequence = s.startSequence
             /\ s'.nextSequence = s.nextSequence
             /\ s'.batchSize = s.batchSize
             /\ s'.pendingBatchStartTime = s.pendingBatchStartTime
             /\ s'.metrics = s.metrics]_vars

\* An out-of-order call has returned while a forming batch with accumulated
\* bytes waits for the missing sequence.
C23_Witness ==
    /\ ret.op = "Schedule"
    /\ ret.txSequence > s.nextSequence
    /\ ret.steps = << >>
    /\ s.startSequence < s.nextSequence
    /\ s.batchSize > 0

\* C25: with distinct sequences, limits of MaxMessageCount >= 1 and no
\* external Cut, after every Schedule call 0 <= startSequence <=
\* nextSequence, the map holds every sequence of startSequence ..
\* nextSequence-1, no key below startSequence and not nextSequence, an empty
\* forming batch has 0 accumulated bytes, and no call decreases
\* startSequence or nextSequence.
C25_StructuralInvariant ==
    /\ [](/\ 0 <= s.startSequence
          /\ s.startSequence <= s.nextSequence
          /\ \A k \in s.startSequence .. (s.nextSequence - 1) :
                k \in DOMAIN s.envelopes
          /\ \A k \in DOMAIN s.envelopes : k >= s.startSequence
          /\ s.nextSequence \notin DOMAIN s.envelopes
          /\ (s.startSequence = s.nextSequence => s.batchSize = 0))
    /\ [][/\ s'.startSequence >= s.startSequence
          /\ s'.nextSequence >= s.nextSequence]_vars

\* A call has drained two envelopes, cut the first as a batch and left the
\* second in the forming batch.
C25_Witness ==
    /\ ret.op = "Schedule"
    /\ Len(ret.steps) = 2
    /\ Len(ret.batches) = 1
    /\ 0 < s.startSequence
    /\ s.startSequence < s.nextSequence
    /\ s.batchSize > 0

\* The number of Wait calls on item n whose receive has completed.
WaitsReleased(n) ==
    (IF waitPc[n] \in {"received", "returned"} THEN 1 ELSE 0)
      + (IF waitAgainPc[n] \in {"received", "returned"} THEN 1 ELSE 0)

\* C26: the send of Done on an item completes only in the step in which the
\* receive of one Wait on that item completes, so that the Done of an item
\* has passed its send exactly when one Wait of the item has passed its
\* receive: a Done without a Wait stays at its send, and of two Wait calls
\* with one Done one stays at its receive.
C26_OneToOneRendezvous ==
    /\ [](\A n \in Seqs :
            WaitsReleased(n) = IF donePc[n] \in {"sent", "returned"} THEN 1 ELSE 0)
    /\ [][\A n \in Seqs :
            (donePc[n] = "send" /\ donePc'[n] # "send")
                => \/ waitPc[n] = "recv" /\ waitPc'[n] = "received"
                   \/ waitAgainPc[n] = "recv" /\ waitAgainPc'[n] = "received"]_vars

\* On one item Done and a Wait have returned and the other Wait is blocked
\* at its receive; on another item Done is blocked with no Wait called.
C26_Witness ==
    /\ \E n \in Seqs :
          /\ donePc[n] = "returned"
          /\ {waitPc[n], waitAgainPc[n]} = {"returned", "recv"}
    /\ \E n \in Seqs :
          donePc[n] = "send" /\ waitPc[n] = "idle" /\ waitAgainPc[n] = "idle"

====
